---- MODULE Spec2Model ----
(* Digitarr: main() / run_check() of src/main.py, the Riven sink of        *)
(* src/riven_requester.py and the validation of src/config_manager.py.     *)
EXTENDS Integers, Sequences, FiniteSets, TLC

(***************************************************************************)
(* Bounds of the exploration.                                              *)
(***************************************************************************)
MaxReleases == 2
MaxCycles == 1

(***************************************************************************)
(* Small helpers.                                                          *)
(***************************************************************************)
RECURSIVE SeqsUpTo(_, _)
SeqsUpTo(S, n) ==
  IF n = 0 THEN {<<>>}
  ELSE LET shorter == SeqsUpTo(S, n - 1)
       IN shorter \cup {Append(q, x) : q \in {p \in shorter : Len(p) = n - 1}, x \in S}

(***************************************************************************)
(* Text values.  Settings of type str are sequences of characters so that  *)
(* startswith / split / strip / int / float are computed, not assumed.     *)
(***************************************************************************)
StartsWith(s, p) == Len(s) >= Len(p) /\ SubSeq(s, 1, Len(p)) = p

HttpPrefix == <<"h","t","t","p",":","/","/">>
HttpsPrefix == <<"h","t","t","p","s",":","/","/">>
EmptyText == <<>>
HttpUrl == HttpPrefix \o <<"r">>
HttpsUrl == HttpsPrefix \o <<"r">>
FtpUrl == <<"f","t","p",":","/","/","r">>
KeyText == <<"k">>
HookUrl == HttpsPrefix \o <<"w">>

DigitVal == [c \in {"0","1","2","3","4","5","6","7","8","9"} |->
  CASE c = "0" -> 0 [] c = "1" -> 1 [] c = "2" -> 2 [] c = "3" -> 3 [] c = "4" -> 4
    [] c = "5" -> 5 [] c = "6" -> 6 [] c = "7" -> 7 [] c = "8" -> 8 [] c = "9" -> 9]

\* int(text) for a non-empty run of decimal digits
RECURSIVE ToInt(_)
ToInt(s) ==
  IF s = <<>> THEN 0
  ELSE 10 * ToInt(SubSeq(s, 1, Len(s) - 1)) + DigitVal[s[Len(s)]]

\* str.strip(), for texts whose only whitespace is the blank
RECURSIVE LStrip(_)
LStrip(s) == IF s # <<>> /\ Head(s) = " " THEN LStrip(Tail(s)) ELSE s

RECURSIVE RStrip(_)
RStrip(s) == IF s # <<>> /\ s[Len(s)] = " " THEN RStrip(SubSeq(s, 1, Len(s) - 1)) ELSE s

Strip(s) == RStrip(LStrip(s))

IsDigits(s) == s # <<>> /\ \A i \in 1..Len(s) : s[i] \in DOMAIN DigitVal

\* int(text): surrounding blanks and a sign are accepted, anything else is a ValueError
ParseInt(s) ==
  LET t == Strip(s)
      body == IF t # <<>> /\ Head(t) \in {"-", "+"} THEN Tail(t) ELSE t
  IN IF IsDigits(body)
     THEN [ok |-> TRUE, v |-> IF Head(t) = "-" THEN 0 - ToInt(body) ELSE ToInt(body)]
     ELSE [ok |-> FALSE, v |-> 0]

\* float values: the integers, and NaN, which no comparison holds for
NaN == 0 - 999
FloatLt(a, b) == a # NaN /\ b # NaN /\ a < b
FloatGt(a, b) == a # NaN /\ b # NaN /\ a > b
FloatGeq(a, b) == a # NaN /\ b # NaN /\ a >= b

NaNTexts == {<<"n","a","n">>, <<"N","a","N">>}

\* float(text) for whole-number literals and the spellings of nan
ParseFloat(s) ==
  IF Strip(s) \in NaNTexts THEN [ok |-> TRUE, v |-> NaN] ELSE ParseInt(s)

\* text.split(":") for a text holding exactly one ":"
SplitColon(s) ==
  LET k == CHOOSE i \in 1..Len(s) : s[i] = ":"
  IN <<SubSeq(s, 1, k - 1), SubSeq(s, k + 1, Len(s))>>

(***************************************************************************)
(* datetime: calendar date and second of the day.                          *)
(***************************************************************************)
SecondsPerDay == 24 * 3600

IsLeap(y) == (y % 4 = 0 /\ y % 100 # 0) \/ y % 400 = 0

DaysIn(y, m) ==
  IF m = 2 THEN (IF IsLeap(y) THEN 29 ELSE 28)
  ELSE IF m \in {4, 6, 9, 11} THEN 30 ELSE 31

DateTime(y, mo, d, h, mi, s) == [y |-> y, mo |-> mo, d |-> d, s |-> h * 3600 + mi * 60 + s]

NoTime == [y |-> 0, mo |-> 0, d |-> 0, s |-> 0]

\* the calendar day after dt's day, at second-of-day s
Tomorrow(dt, s) ==
  IF dt.d < DaysIn(dt.y, dt.mo) THEN [dt EXCEPT !.d = dt.d + 1, !.s = s]
  ELSE IF dt.mo < 12 THEN [y |-> dt.y, mo |-> dt.mo + 1, d |-> 1, s |-> s]
  ELSE [y |-> dt.y + 1, mo |-> 1, d |-> 1, s |-> s]

\* the wall clock n seconds (n < one day) after dt
AddSeconds(dt, n) ==
  IF dt.s + n < SecondsPerDay THEN [dt EXCEPT !.s = dt.s + n]
  ELSE Tomorrow(dt, dt.s + n - SecondsPerDay)

\* a <= b for datetimes
DtLeq(a, b) ==
  \/ a.y < b.y
  \/ a.y = b.y /\ a.mo < b.mo
  \/ a.y = b.y /\ a.mo = b.mo /\ a.d < b.d
  \/ a.y = b.y /\ a.mo = b.mo /\ a.d = b.d /\ a.s <= b.s

\* days from a's date to b's date, for dates at most one day apart
DayDiff(a, b) ==
  IF a.y = b.y /\ a.mo = b.mo /\ a.d = b.d THEN 0
  ELSE IF Tomorrow(a, 0) = [b EXCEPT !.s = 0] THEN 1 ELSE -1

\* (b - a).total_seconds() for b on a's day or the day after
SecondsBetween(a, b) == DayDiff(a, b) * SecondsPerDay + b.s - a.s

(***************************************************************************)
(* The scheduler's computation of the next run, main.py lines 179-187.     *)
(***************************************************************************)
\* datetime.replace(day=...): ValueError when the day is not in the month
ReplaceDay(dt, day) ==
  IF day >= 1 /\ day <= DaysIn(dt.y, dt.mo)
  THEN [ok |-> TRUE, dt |-> [dt EXCEPT !.d = day]]
  ELSE [ok |-> FALSE, dt |-> dt]

\* lines 180-185: today at run_time, or day + 1 when that has passed
NextRun(t_now, run_time) ==
  LET parts == SplitColon(run_time)
      target_hour == ToInt(parts[1])
      target_minute == ToInt(parts[2])
      today == [t_now EXCEPT !.s = target_hour * 3600 + target_minute * 60]
  IN IF DtLeq(today, t_now) THEN ReplaceDay(today, t_now.d + 1)
     ELSE [ok |-> TRUE, dt |-> today]

\* the earliest instant strictly after t_now whose time of day is run_time
CalendarNextRun(t_now, run_time) ==
  LET parts == SplitColon(run_time)
      sec == ToInt(parts[1]) * 3600 + ToInt(parts[2]) * 60
  IN IF sec > t_now.s THEN [t_now EXCEPT !.s = sec] ELSE Tomorrow(t_now, sec)

(***************************************************************************)
(* Configuration, as load_config hands it to main.                         *)
(***************************************************************************)
NoRunTime == EmptyText
RunTime1900 == <<"1","9",":","0","0">>

OverseerrSettings ==
  { [api_url |-> EmptyText, api_key |-> EmptyText],
    [api_url |-> HttpUrl, api_key |-> KeyText],
    [api_url |-> FtpUrl, api_key |-> KeyText],
    [api_url |-> FtpUrl, api_key |-> EmptyText] }

RivenSettings ==
  { [api_url |-> EmptyText, api_key |-> EmptyText],
    [api_url |-> HttpsUrl, api_key |-> KeyText],
    [api_url |-> EmptyText, api_key |-> KeyText],
    [api_url |-> FtpUrl, api_key |-> KeyText] }

RatingSettings == {-1, 0, 5, 10, 11}

ConfigSet ==
  [ overseerr : OverseerrSettings,
    riven : RivenSettings,
    tmdb : [api_key : {EmptyText, KeyText}],
    filters : [min_tmdb_rating : RatingSettings],
    discord : [webhook_url : {EmptyText, HookUrl}],
    run_time : {NoRunTime, RunTime1900},
    request_delay_minutes : {0, 1} ]

BadScheme(url) ==
  url # EmptyText /\ ~(StartsWith(url, HttpPrefix) \/ StartsWith(url, HttpsPrefix))

\* the mutated validation: the Riven URL is not looked at
ValidateConfigNoRivenUrl(cfg) ==
  LET overseerr_configured == cfg.overseerr.api_key # EmptyText
  IN IF overseerr_configured /\ BadScheme(cfg.overseerr.api_url) THEN "ValueError"
     ELSE IF FloatLt(cfg.filters.min_tmdb_rating, 0)
             \/ FloatGt(cfg.filters.min_tmdb_rating, 10) THEN "ValueError"
     ELSE "ok"

\* ConfigManager._validate_config: "ok" or the exception it raises
ValidateConfig(cfg) ==
  LET overseerr_configured == cfg.overseerr.api_key # EmptyText
      riven_configured == cfg.riven.api_key # EmptyText
  IN IF overseerr_configured /\ BadScheme(cfg.overseerr.api_url) THEN "ValueError"
     ELSE IF riven_configured /\ BadScheme(cfg.riven.api_url) THEN "ValueError"
     ELSE IF FloatLt(cfg.filters.min_tmdb_rating, 0)
             \/ FloatGt(cfg.filters.min_tmdb_rating, 10) THEN "ValueError"
     ELSE "ok"

\* main.py lines 121-136: "ok" or the exception raised before any component exists
StartupCheck(cfg) ==
  LET overseerr_enabled == cfg.overseerr.api_key # EmptyText
      riven_enabled == cfg.riven.api_key # EmptyText
  IN IF ~overseerr_enabled /\ ~riven_enabled THEN "ValueError"
     ELSE IF cfg.tmdb.api_key = EmptyText THEN "ValueError"
     ELSE "ok"

(***************************************************************************)
(* ConfigManager.load_config: settings file, defaults, environment.        *)
(***************************************************************************)
\* DEFAULT_SETTINGS as the class body defines it, lines 20-48 (the settings the
\* program's decisions read)
DEFAULT_SETTINGS ==
  [ overseerr |-> [api_url |-> EmptyText, api_key |-> EmptyText],
    riven |-> [api_url |-> EmptyText, api_key |-> EmptyText],
    tmdb |-> [api_key |-> EmptyText],
    filters |-> [min_tmdb_rating |-> 0],
    discord |-> [webhook_url |-> EmptyText],
    run_time |-> EmptyText,
    request_delay_minutes |-> 0 ]

\* the keys whose values are dictionaries
Sections == {"overseerr", "riven", "tmdb", "filters", "discord"}

\* {**a, **b}
Overlay(a, b) == [k \in DOMAIN a \cup DOMAIN b |-> IF k \in DOMAIN b THEN b[k] ELSE a[k]]

\* _merge_with_defaults, lines 82-90
MergeWithDefaults(content, defaults) ==
  [k \in DOMAIN defaults \cup DOMAIN content |->
     IF k \notin DOMAIN content THEN defaults[k]
     ELSE IF k \in Sections /\ k \in DOMAIN defaults
          THEN Overlay(defaults[k], content[k])
          ELSE content[k]]

\* settings.json: absent, or a JSON object
NoFile == [exists |-> FALSE, content |-> <<>>]
SettingsFile(content) == [exists |-> TRUE, content |-> content]

\* lines 58-69: the file merged with the defaults, or the defaults
FileConfig(file, defaults) ==
  IF file.exists THEN MergeWithDefaults(file.content, defaults) ELSE defaults

\* lines 68 and 84: DEFAULT_SETTINGS.copy() is a shallow copy, so a section the file
\* does not give is, in the configuration, the very dictionary of the class
AliasedSections(file) ==
  IF file.exists THEN Sections \ DOMAIN file.content ELSE Sections

\* os.getenv of a variable that is not set
None == <<"None">>

\* env_map, lines 148-161, and top_level_map, lines 164-168
EnvMap ==
  [ OVERSEERR_API_KEY |-> [section |-> "overseerr", key |-> "api_key", type |-> "str"],
    OVERSEERR_API_URL |-> [section |-> "overseerr", key |-> "api_url", type |-> "str"],
    RIVEN_API_KEY |-> [section |-> "riven", key |-> "api_key", type |-> "str"],
    RIVEN_API_URL |-> [section |-> "riven", key |-> "api_url", type |-> "str"],
    TMDB_API_KEY |-> [section |-> "tmdb", key |-> "api_key", type |-> "str"],
    DISCORD_WEBHOOK_URL |-> [section |-> "discord", key |-> "webhook_url", type |-> "str"],
    FILTERS_MIN_TMDB_RATING |->
      [section |-> "filters", key |-> "min_tmdb_rating", type |-> "float"] ]

TopLevelMap ==
  [ RUN_TIME |-> [key |-> "run_time", type |-> "str"],
    REQUEST_DELAY_MINUTES |-> [key |-> "request_delay_minutes", type |-> "int"] ]

EnvOrder ==
  <<"OVERSEERR_API_KEY", "OVERSEERR_API_URL", "RIVEN_API_KEY", "RIVEN_API_URL",
    "TMDB_API_KEY", "DISCORD_WEBHOOK_URL", "FILTERS_MIN_TMDB_RATING">>
TopLevelOrder == <<"RUN_TIME", "REQUEST_DELAY_MINUTES">>

\* lines 173 and 199: "value is not None and value.strip()"
Overrides(value) == value # None /\ Strip(value) # EmptyText

\* lines 183-192 and 203-208: the value converted to the setting's type, or ValueError
Convert(value, type) ==
  IF type = "int" THEN ParseInt(value)
  ELSE IF type = "float" THEN ParseFloat(value)
  ELSE [ok |-> TRUE, v |-> value]

\* lines 171-194: the nested overrides, in the order of env_map
RECURSIVE ApplyNested(_, _, _)
ApplyNested(cfg, env, names) ==
  IF names = <<>> THEN [raised |-> FALSE, config |-> cfg]
  ELSE LET value == env[Head(names)]
           m == EnvMap[Head(names)]
       IN IF Overrides(value)
          THEN LET c == Convert(value, m.type)
               IN IF c.ok
                  THEN ApplyNested([cfg EXCEPT ![m.section][m.key] = c.v], env, Tail(names))
                  ELSE [raised |-> TRUE, config |-> cfg]
          ELSE ApplyNested(cfg, env, Tail(names))

\* lines 197-210: the top-level overrides
RECURSIVE ApplyTopLevel(_, _, _)
ApplyTopLevel(cfg, env, names) ==
  IF names = <<>> THEN [raised |-> FALSE, config |-> cfg]
  ELSE LET value == env[Head(names)]
           m == TopLevelMap[Head(names)]
       IN IF Overrides(value)
          THEN LET c == Convert(value, m.type)
               IN IF c.ok
                  THEN ApplyTopLevel([cfg EXCEPT ![m.key] = c.v], env, Tail(names))
                  ELSE [raised |-> TRUE, config |-> cfg]
          ELSE ApplyTopLevel(cfg, env, Tail(names))

\* _apply_env_overrides, lines 134-212
ApplyEnvOverrides(cfg, env) ==
  LET nested == ApplyNested(cfg, env, EnvOrder)
  IN IF nested.raised THEN nested ELSE ApplyTopLevel(nested.config, env, TopLevelOrder)

\* load_config, lines 55-80: the configuration returned, or raised
LoadConfigResult(file, env, defaults) ==
  LET overridden == ApplyEnvOverrides(FileConfig(file, defaults), env)
  IN IF overridden.raised THEN [raised |-> TRUE, config |-> FileConfig(file, defaults)]
     ELSE IF ValidateConfig(overridden.config) # "ok"
     THEN [raised |-> TRUE, config |-> FileConfig(file, defaults)]
     ELSE [raised |-> FALSE, config |-> overridden.config]

\* lines 179-192: "config[section][key] = ..." writes into the section's dictionary; for
\* an aliased section that is the dictionary DEFAULT_SETTINGS holds (the writes made
\* before a conversion error stay)
DefaultsAfterLoad(file, env, defaults) ==
  LET overridden == ApplyEnvOverrides(FileConfig(file, defaults), env)
  IN [k \in DOMAIN defaults |->
        IF k \in AliasedSections(file) THEN overridden.config[k] ELSE defaults[k]]

\* no environment variable is set
NoEnviron == [n \in DOMAIN EnvMap \cup DOMAIN TopLevelMap |-> None]

(***************************************************************************)
(* Releases.  A missing dictionary key is NoId / NoType.  The release      *)
(* source either yields records keyed tmdb_id / type, or the records of    *)
(* DVDReleaseChecker._lookup_on_tmdb, keyed id / media_type.  Every        *)
(* release is a movie (media_type).                                        *)
(***************************************************************************)
NoId == 0 - 1
NoType == "absent"

RelA == [title |-> "A", tmdb_id |-> 1, id |-> NoId, type |-> "movie", vote_average |-> 7,
         media_type |-> "movie"]
RelB == [title |-> "B", tmdb_id |-> 2, id |-> NoId, type |-> "movie", vote_average |-> 4,
         media_type |-> "movie"]
RelD == [title |-> "D", tmdb_id |-> NoId, id |-> 3, type |-> NoType, vote_average |-> 7,
         media_type |-> "movie"]
RelE == [title |-> "E", tmdb_id |-> NoId, id |-> 4, type |-> NoType, vote_average |-> 4,
         media_type |-> "movie"]

\* a release tagged as a movie that carries no tmdb_id
RelM == [title |-> "M", tmdb_id |-> NoId, id |-> NoId, type |-> "movie", vote_average |-> 7,
         media_type |-> "movie"]

SourceOutputs == SeqsUpTo({RelA, RelB}, MaxReleases) \cup SeqsUpTo({RelD, RelE}, MaxReleases)

\* FilterEngine.apply_filters, rule 1 (the other rules pass for these releases)
RECURSIVE ApplyFilters(_, _)
ApplyFilters(rs, min_tmdb_rating) ==
  IF rs = <<>> THEN <<>>
  ELSE IF FloatGeq(Head(rs).vote_average, min_tmdb_rating)
       THEN <<Head(rs)>> \o ApplyFilters(Tail(rs), min_tmdb_rating)
       ELSE ApplyFilters(Tail(rs), min_tmdb_rating)

(***************************************************************************)
(* run_check: the outcome table and the Overseerr loop body.               *)
(***************************************************************************)
EmptyTable == [k \in {} |-> [overseerr |-> FALSE, riven |-> FALSE]]

\* str(release.get("tmdb_id", ""))
ResultKey(release) == IF release.tmdb_id = NoId THEN "" ELSE ToString(release.tmdb_id)

\* lines 61-62 / 92-93: create the record when the key is new
EnsureRecord(table, key) ==
  IF key \in DOMAIN table THEN table
  ELSE [k \in DOMAIN table \cup {key} |->
          IF k = key THEN [overseerr |-> FALSE, riven |-> FALSE] ELSE table[k]]

\* the mutated loop body: no handler around request_media
OverseerrItemNoHandler(table, successful, failed, release, outcome) ==
  LET key == ResultKey(release)
      t1 == EnsureRecord(table, key)
  IN IF outcome = "true"
     THEN [table |-> [t1 EXCEPT ![key].overseerr = TRUE],
           successful |-> successful + 1, failed |-> failed, raised |-> FALSE]
     ELSE IF outcome = "false"
     THEN [table |-> t1, successful |-> successful, failed |-> failed + 1, raised |-> FALSE]
     ELSE [table |-> t1, successful |-> successful, failed |-> failed, raised |-> TRUE]

\* lines 60-76: one iteration of the Overseerr loop for one outcome of request_media
OverseerrItem(table, successful, failed, release, outcome) ==
  LET key == ResultKey(release)
      t1 == EnsureRecord(table, key)
  IN IF outcome = "true"
     THEN [table |-> [t1 EXCEPT ![key].overseerr = TRUE],
           successful |-> successful + 1, failed |-> failed, raised |-> FALSE]
     ELSE [table |-> t1, successful |-> successful, failed |-> failed + 1, raised |-> FALSE]

\* the mutated call: the Riven sink is handed the unfiltered releases
AddMediaArgumentUnfiltered(all_releases, filtered) == all_releases

\* line 84: add_media is handed filtered_releases
AddMediaArgument(all_releases, filtered) == filtered

\* the mutated guard: the Riven step also runs on an empty filtered set
RivenGuardNoEmptyTest(requester, filtered) == requester.present

\* the mutated loop: it is left after its first iteration
LoopDoneAfterFirst(i, filtered) == TRUE

\* line 59: "for release in filtered_releases" ends after the last element
LoopDone(i, filtered) == i = Len(filtered)

\* line 57 and line 82: "if requester and filtered_releases"
OverseerrGuard(requester, filtered) == requester.present /\ filtered # <<>>
RivenGuard(requester, filtered) == requester.present /\ filtered # <<>>

\* the mutated marking: only releases that Overseerr knows are marked
MarkRivenKnownOnly(table, filtered, success_count) ==
  IF success_count > 0
  THEN [k \in DOMAIN table |-> [table[k] EXCEPT !.riven = TRUE]]
  ELSE table

\* lines 88-94: mark every filtered release when the batch reported a success
RECURSIVE MarkAll(_, _)
MarkAll(table, rs) ==
  IF rs = <<>> THEN table
  ELSE LET key == ResultKey(Head(rs))
           t1 == EnsureRecord(table, key)
       IN MarkAll([t1 EXCEPT ![key].riven = TRUE], Tail(rs))

MarkRiven(table, filtered, success_count) ==
  IF success_count > 0 THEN MarkAll(table, filtered) ELSE table

\* the mutated notification test: the outcome table is not looked at
ShouldNotifyEnabledOnly(enabled, table) == enabled

\* line 103: "discord_notifier.is_enabled() and release_results"
ShouldNotify(enabled, table) == enabled /\ DOMAIN table # {}

\* DiscordNotifier.is_enabled for the notifier main builds from the configuration
NotifierEnabled(cfg) == cfg.discord.webhook_url # EmptyText

(***************************************************************************)
(* RivenRequester.                                                         *)
(***************************************************************************)
BackendIds == {1, 2}
InternalId(t) == t + 100

NoRequester == [present |-> FALSE, api_url |-> EmptyText, api_key |-> EmptyText]
Requester(section) == [present |-> TRUE, api_url |-> section.api_url, api_key |-> section.api_key]

\* is_enabled, lines 24-26
IsEnabled(rq) == rq.api_key # EmptyText /\ rq.api_url # EmptyText

\* line 42: the releases tagged type = movie
RECURSIVE Movies(_)
Movies(rs) ==
  IF rs = <<>> THEN <<>>
  ELSE IF Head(rs).type = "movie" THEN <<Head(rs)>> \o Movies(Tail(rs)) ELSE Movies(Tail(rs))

\* line 130: str(tmdb_id) of the releases that have one
RECURSIVE TmdbIds(_)
TmdbIds(rs) ==
  IF rs = <<>> THEN <<>>
  ELSE IF Head(rs).tmdb_id # NoId /\ Head(rs).tmdb_id # 0
       THEN <<ToString(Head(rs).tmdb_id)>> \o TmdbIds(Tail(rs))
       ELSE TmdbIds(Tail(rs))

AggregateNone == [success |-> 0, failed |-> 0, detail |-> "none"]

\* _get_unknown_items, lines 49-80: the map tmdb_id -> internal id, {} on any failure
UnknownItems(response, items) ==
  IF response = "200"
  THEN LET held == {t \in BackendIds : items[t] = "Unknown"}
       IN [k \in {ToString(t) : t \in held} |->
             ToString(InternalId(CHOOSE t \in held : ToString(t) = k))]
  ELSE [k \in {} |-> ""]

\* the mutated collection: the TMDB id is scheduled instead of the internal id
RECURSIVE ItemsToRemoveTmdbId(_, _)
ItemsToRemoveTmdbId(ids, unknown) ==
  IF ids = <<>> THEN <<>>
  ELSE IF Head(ids) \in DOMAIN unknown
       THEN <<Head(ids)>> \o ItemsToRemoveTmdbId(Tail(ids), unknown)
       ELSE ItemsToRemoveTmdbId(Tail(ids), unknown)

\* lines 138-142: the internal ids of the targets found in Unknown state
RECURSIVE ItemsToRemove(_, _)
ItemsToRemove(ids, unknown) ==
  IF ids = <<>> THEN <<>>
  ELSE IF Head(ids) \in DOMAIN unknown
       THEN <<unknown[Head(ids)]>> \o ItemsToRemove(Tail(ids), unknown)
       ELSE ItemsToRemove(Tail(ids), unknown)

\* the mutated step: a remove call that failed ends the batch without the add call
AfterRemoveChecked(response) == IF response = "200" THEN "riven_add" ELSE "riven_ret"

\* line 145: the answer of _remove_items is not looked at, the add call follows
AfterRemove(response) == "riven_add"

\* the backend after DELETE /items/remove answered `response`
BackendAfterRemove(items, ids, response) ==
  IF response = "200"
  THEN [t \in BackendIds |->
          IF \E i \in 1..Len(ids) : ids[i] = ToString(InternalId(t)) THEN "absent" ELSE items[t]]
  ELSE items

\* the backend after POST /items/add answered `response`
BackendAfterAdd(items, ids, response) ==
  IF response = "200"
  THEN [t \in BackendIds |->
          IF items[t] = "absent" /\ (\E i \in 1..Len(ids) : ids[i] = ToString(t))
          THEN "Requested" ELSE items[t]]
  ELSE items

\* the mutated result: a 422 answer is reported as a partly accepted batch
AddResultPartial(response, ids, movies) ==
  IF response = "200"
  THEN [raised |-> FALSE, success |-> Len(ids), failed |-> 0, detail |-> "success"]
  ELSE IF response = "422"
  THEN [raised |-> FALSE, success |-> Len(ids) - 1, failed |-> 1, detail |-> response]
  ELSE IF response \in {"404", "500"}
  THEN [raised |-> FALSE, success |-> 0, failed |-> Len(ids), detail |-> response]
  ELSE [raised |-> FALSE, success |-> 0, failed |-> Len(movies), detail |-> "exception"]

\* the mutated result: a network exception of the add call is not caught
AddResultNoHandler(response, ids, movies) ==
  IF response = "200"
  THEN [raised |-> FALSE, success |-> Len(ids), failed |-> 0, detail |-> "success"]
  ELSE IF response = "exception"
  THEN [raised |-> TRUE, success |-> 0, failed |-> 0, detail |-> "exception"]
  ELSE [raised |-> FALSE, success |-> 0, failed |-> Len(ids), detail |-> response]

\* lines 164-206: the aggregate for each answer of the add call
AddResult(response, ids, movies) ==
  IF response = "200"
  THEN [raised |-> FALSE, success |-> Len(ids), failed |-> 0, detail |-> "success"]
  ELSE IF response \in {"404", "422", "500"}
  THEN [raised |-> FALSE, success |-> 0, failed |-> Len(ids), detail |-> response]
  ELSE [raised |-> FALSE, success |-> 0, failed |-> Len(movies), detail |-> "exception"]

\* add_media lines 37-47 and _add_items lines 128-134: the early returns, or the
\* movies and ids the reconciliation goes on with
AddMediaEntry(rq, rs) ==
  IF ~IsEnabled(rq)
  THEN [early |-> TRUE, result |-> AggregateNone, movies |-> <<>>, tmdb_ids |-> <<>>]
  ELSE IF Movies(rs) = <<>>
  THEN [early |-> TRUE, result |-> AggregateNone, movies |-> <<>>, tmdb_ids |-> <<>>]
  ELSE IF TmdbIds(Movies(rs)) = <<>>
  THEN [early |-> TRUE,
        result |-> [success |-> 0, failed |-> Len(Movies(rs)), detail |-> "none"],
        movies |-> Movies(rs), tmdb_ids |-> <<>>]
  ELSE [early |-> FALSE, result |-> AggregateNone,
        movies |-> Movies(rs), tmdb_ids |-> TmdbIds(Movies(rs))]

(***************************************************************************)
(* State.                                                                  *)
(***************************************************************************)
VARIABLES
  pc,                   \* where main / run_check stands
  config,               \* the settings: as read (lines 58-69), then as load_config returns them
  exit_code,            \* main's return value, NotExited while running
  raised,               \* the call whose exception is in flight or was fatal
  overseerr_requester,  \* main.py line 157
  riven_requester,      \* main.py line 158
  now, next_run, sleep_seconds,   \* scheduler locals, lines 179-187
  cycles,               \* run_check invocations that have ended
  releases, filtered_releases, release_results,
  overseerr_successful, overseerr_failed,
  idx,                  \* position of the Overseerr loop in filtered_releases
  riven_results, riven_success_count, riven_failed_count,
  movies, tmdb_ids, items_to_remove,   \* locals of add_media / _add_items
  riven_items,          \* the Riven backend: state of each item
  movies_today,         \* dvd_release_checker.py line 42: the titles scraped for today
  settings_file,        \* settings.json as load_config finds it
  default_settings,     \* ConfigManager.DEFAULT_SETTINGS as the process holds it
  environ,              \* os.environ: the supported variables
  log                   \* the calls of the current cycle, in order

vars == <<pc, config, exit_code, raised, overseerr_requester, riven_requester,
          now, next_run, sleep_seconds, cycles, releases, filtered_releases,
          release_results, overseerr_successful, overseerr_failed, idx,
          riven_results, riven_success_count, riven_failed_count,
          movies, tmdb_ids, items_to_remove, riven_items, movies_today, settings_file,
          default_settings, environ, log>>

mainVars == <<movies_today, settings_file, environ, default_settings, config, exit_code, overseerr_requester,
              riven_requester, now, next_run, sleep_seconds, cycles>>
sourceVars == <<releases, filtered_releases>>
overseerrVars == <<release_results, overseerr_successful, overseerr_failed, idx>>
rivenVars == <<riven_results, riven_success_count, riven_failed_count,
               movies, tmdb_ids, items_to_remove>>

NotExited == 0 - 1
Ev(op, arg, res) == [op |-> op, arg |-> arg, res |-> res]
Scheduled == config.run_time # NoRunTime

StartTimes ==
  { DateTime(2025, 1, 30, 12, 0, 0),
    DateTime(2025, 1, 31, 12, 0, 0),
    DateTime(2025, 1, 31, 19, 0, 0) }

\* the backend holds item 1 in Unknown state (a stalled earlier request) and not item 2
BackendInits ==
  { [t \in BackendIds |-> IF t = 1 THEN "Unknown" ELSE "absent"] }

RequestOutcomes == {"true", "false", "raise"}
LookupResponses == {"200", "500", "exception"}
RemoveResponses == {"200", "500", "exception"}
AddResponses == {"200", "404", "422", "500", "exception"}
NotifyOutcomes == {"ok", "raise"}

Init ==
  /\ pc = "load"
  /\ settings_file \in {SettingsFile(content) : content \in ConfigSet}
  /\ environ = NoEnviron
  /\ default_settings = DEFAULT_SETTINGS
  /\ config = FileConfig(settings_file, default_settings)
  /\ exit_code = NotExited
  /\ raised = "none"
  /\ overseerr_requester = NoRequester
  /\ riven_requester = NoRequester
  /\ now = NoTime
  /\ next_run = NoTime
  /\ sleep_seconds = 0
  /\ cycles = 0
  /\ releases = <<>>
  /\ filtered_releases = <<>>
  /\ release_results = EmptyTable
  /\ overseerr_successful = 0
  /\ overseerr_failed = 0
  /\ idx = 1
  /\ riven_results = AggregateNone
  /\ movies_today = <<>>
  /\ riven_success_count = 0
  /\ riven_failed_count = 0
  /\ movies = <<>>
  /\ tmdb_ids = <<>>
  /\ items_to_remove = <<>>
  /\ riven_items \in BackendInits
  /\ log = <<>>

(***************************************************************************)
(* main: configuration, start-up, the two run modes.                       *)
(***************************************************************************)
\* lines 113-114: load_config overrides, validates and returns, or raises
LoadConfig ==
  /\ pc = "load"
  /\ LET r == LoadConfigResult(settings_file, environ, default_settings)
     IN IF r.raised
        THEN pc' = "fatal" /\ raised' = "load_config" /\ config' = config
        ELSE pc' = "startup" /\ raised' = raised /\ config' = r.config
  /\ default_settings' = DefaultsAfterLoad(settings_file, environ, default_settings)
  /\ UNCHANGED <<movies_today, settings_file, environ, exit_code, overseerr_requester, riven_requester,
                 now, next_run, sleep_seconds, cycles,
                 sourceVars, overseerrVars, rivenVars, riven_items, log>>

\* lines 116-166: enabled services, required keys, components, run mode
Startup ==
  /\ pc = "startup"
  /\ IF StartupCheck(config) = "ok"
     THEN /\ overseerr_requester' =
               IF config.overseerr.api_key # EmptyText THEN Requester(config.overseerr) ELSE NoRequester
          /\ riven_requester' =
               IF config.riven.api_key # EmptyText THEN Requester(config.riven) ELSE NoRequester
          /\ pc' = IF Scheduled THEN "sched" ELSE "delay"
          /\ raised' = raised
     ELSE /\ pc' = "fatal"
          /\ raised' = "startup"
          /\ UNCHANGED <<overseerr_requester, riven_requester>>
  /\ UNCHANGED <<movies_today, settings_file, environ, default_settings, config, exit_code, now, next_run, sleep_seconds, cycles,
                 sourceVars, overseerrVars, rivenVars, riven_items, log>>

\* datetime.now() at line 179: any start time first, then the time after the cycle
ClockNow ==
  IF next_run = NoTime THEN StartTimes
  ELSE {AddSeconds(next_run, 1 + 60 * config.request_delay_minutes)}

\* lines 177-189: compute the next run and sleep until then
SchedCompute ==
  /\ pc = "sched"
  /\ \E t \in ClockNow :
       LET r == NextRun(t, config.run_time)
       IN /\ now' = t
          /\ IF r.ok
             THEN /\ next_run' = r.dt
                  /\ sleep_seconds' = SecondsBetween(t, r.dt)
                  /\ pc' = IF cycles < MaxCycles THEN "delay" ELSE "asleep"
                  /\ raised' = raised
             ELSE /\ pc' = "fatal"
                  /\ raised' = "schedule"
                  /\ UNCHANGED <<next_run, sleep_seconds>>
  /\ UNCHANGED <<movies_today, settings_file, environ, default_settings, config, exit_code, overseerr_requester, riven_requester, cycles,
                 sourceVars, overseerrVars, rivenVars, riven_items, log>>

\* lines 169-171 and 192-194: the request delay; a new cycle starts
Delay ==
  /\ pc = "delay"
  /\ log' = IF config.request_delay_minutes > 0
            THEN <<Ev("sleep", config.request_delay_minutes * 60, "ok")>>
            ELSE <<>>
  /\ pc' = "source"
  /\ UNCHANGED <<mainVars, raised, sourceVars, overseerrVars, rivenVars, riven_items>>

\* run_check's frame is discarded when the call is left: its locals (lines 45-104)
\* do not exist between two cycles, and the trace of its calls ends with it
FrameDiscarded ==
  /\ releases' = <<>>
  /\ filtered_releases' = <<>>
  /\ release_results' = EmptyTable
  /\ overseerr_successful' = 0
  /\ overseerr_failed' = 0
  /\ idx' = 1
  /\ riven_results' = AggregateNone
  /\ riven_success_count' = 0
  /\ riven_failed_count' = 0
  /\ movies' = <<>>
  /\ tmdb_ids' = <<>>
  /\ items_to_remove' = <<>>

\* line 204 after a run-once cycle; the end of the try block in the loop
RunCheckReturn ==
  /\ pc = "rc_return"
  /\ cycles' = cycles + 1
  /\ IF Scheduled
     THEN pc' = "sched" /\ exit_code' = exit_code
     ELSE pc' = "exit" /\ exit_code' = 0
  /\ FrameDiscarded
  /\ log' = <<>>
  /\ UNCHANGED <<movies_today, settings_file, environ, default_settings, config, raised, overseerr_requester, riven_requester, now, next_run,
                 sleep_seconds, riven_items>>

\* lines 197-198: an exception of the cycle is logged and the loop goes on
CatchInLoop ==
  /\ pc = "rc_raised"
  /\ Scheduled
  /\ cycles' = cycles + 1
  /\ pc' = "sched"
  /\ raised' = "none"
  /\ log' = <<Ev("logger.error", raised, "ok")>>
  /\ FrameDiscarded
  /\ UNCHANGED <<movies_today, settings_file, environ, default_settings, config, exit_code, overseerr_requester, riven_requester, now, next_run,
                 sleep_seconds, riven_items>>

\* lines 200-202: any exception that reaches main's handler ends it with 1
Fatal ==
  /\ \/ pc = "fatal"
     \/ pc = "rc_raised" /\ ~Scheduled
  /\ pc' = "exit"
  /\ exit_code' = 1
  /\ UNCHANGED <<movies_today, settings_file, environ, default_settings, config, raised, overseerr_requester, riven_requester, now, next_run,
                 sleep_seconds, cycles, sourceVars, overseerrVars, rivenVars,
                 riven_items, log>>

(***************************************************************************)
(* run_check.                                                              *)
(***************************************************************************)
\* line 42: the release source answers
GetReleases ==
  /\ pc = "source"
  /\ \E rs \in SourceOutputs :
       /\ releases' = rs
       /\ log' = Append(log, Ev("get_today_releases", <<>>, Len(rs)))
  /\ pc' = "filter"
  /\ UNCHANGED <<mainVars, raised, filtered_releases, overseerrVars, rivenVars, riven_items>>

\* lines 46-57 and 79-80: filter, fresh outcome table and counters, Overseerr guard
Filter ==
  /\ pc = "filter"
  /\ LET out == ApplyFilters(releases, config.filters.min_tmdb_rating)
     IN /\ filtered_releases' = out
        /\ log' = Append(log, Ev("apply_filters", Len(releases), Len(out)))
        /\ pc' = IF OverseerrGuard(overseerr_requester, out) THEN "overseerr" ELSE "riven"
  /\ release_results' = EmptyTable
  /\ overseerr_successful' = 0
  /\ overseerr_failed' = 0
  /\ idx' = 1
  /\ riven_results' = AggregateNone
  /\ riven_success_count' = 0
  /\ riven_failed_count' = 0
  /\ movies' = <<>>
  /\ tmdb_ids' = <<>>
  /\ items_to_remove' = <<>>
  /\ UNCHANGED <<mainVars, raised, releases, riven_items>>

\* lines 59-76: one iteration of the Overseerr loop
OverseerrRequest ==
  /\ pc = "overseerr"
  /\ \E outcome \in RequestOutcomes :
       LET r == OverseerrItem(release_results, overseerr_successful, overseerr_failed,
                              filtered_releases[idx], outcome)
       IN /\ log' = Append(log, Ev("request_media", idx, outcome))
          /\ release_results' = r.table
          /\ overseerr_successful' = r.successful
          /\ overseerr_failed' = r.failed
          /\ IF r.raised
             THEN pc' = "rc_raised" /\ raised' = "request_media" /\ idx' = idx
             ELSE /\ idx' = idx + 1
                  /\ pc' = IF LoopDone(idx, filtered_releases) THEN "riven" ELSE "overseerr"
                  /\ raised' = raised
  /\ UNCHANGED <<mainVars, sourceVars, rivenVars, riven_items>>

\* lines 82-84, add_media lines 37-47, _add_items lines 128-134
RivenStep ==
  /\ pc = "riven"
  /\ IF RivenGuard(riven_requester, filtered_releases)
     THEN LET handed == AddMediaArgument(releases, filtered_releases)
              e == AddMediaEntry(riven_requester, handed)
          IN /\ log' = Append(log, Ev("add_media", handed, "called"))
             /\ movies' = e.movies
             /\ tmdb_ids' = e.tmdb_ids
             /\ riven_results' = e.result
             /\ pc' = IF e.early THEN "riven_ret" ELSE "riven_lookup"
     ELSE /\ pc' = "summary"
          /\ UNCHANGED <<log, movies, tmdb_ids, riven_results>>
  /\ UNCHANGED <<mainVars, raised, sourceVars, overseerrVars, riven_success_count,
                 riven_failed_count, items_to_remove, riven_items>>

\* lines 136-144 with _get_unknown_items: GET /items?states=Unknown
RivenLookup ==
  /\ pc = "riven_lookup"
  /\ \E response \in LookupResponses :
       LET unknown_items == UnknownItems(response, riven_items)
           ids == ItemsToRemove(tmdb_ids, unknown_items)
       IN /\ items_to_remove' = ids
          /\ log' = Append(log, Ev("GET /items", "Unknown", response))
          /\ pc' = IF ids # <<>> THEN "riven_remove" ELSE "riven_add"
  /\ UNCHANGED <<mainVars, raised, sourceVars, overseerrVars, riven_results,
                 riven_success_count, riven_failed_count, movies, tmdb_ids, riven_items>>

\* line 145 with _remove_items: DELETE /items/remove
RivenRemove ==
  /\ pc = "riven_remove"
  /\ \E response \in RemoveResponses :
       /\ riven_items' = BackendAfterRemove(riven_items, items_to_remove, response)
       /\ log' = Append(log, Ev("DELETE /items/remove", items_to_remove, response))
       /\ pc' = AfterRemove(response)
  /\ UNCHANGED <<mainVars, raised, sourceVars, overseerrVars, rivenVars>>

\* lines 147-206: POST /items/add and the aggregate returned
RivenAdd ==
  /\ pc = "riven_add"
  /\ \E response \in AddResponses :
       LET r == AddResult(response, tmdb_ids, movies)
       IN /\ riven_items' = BackendAfterAdd(riven_items, tmdb_ids, response)
          /\ log' = Append(log, Ev("POST /items/add", tmdb_ids, response))
          /\ IF r.raised
             THEN pc' = "rc_raised" /\ raised' = "add_media" /\ riven_results' = riven_results
             ELSE /\ riven_results' =
                       [success |-> r.success, failed |-> r.failed, detail |-> r.detail]
                  /\ pc' = "riven_ret"
                  /\ raised' = raised
  /\ UNCHANGED <<mainVars, sourceVars, overseerrVars, riven_success_count,
                 riven_failed_count, movies, tmdb_ids, items_to_remove>>

\* lines 85-96: take the counts, mark the outcome table
RivenFinish ==
  /\ pc = "riven_ret"
  /\ riven_success_count' = riven_results.success
  /\ riven_failed_count' = riven_results.failed
  /\ release_results' = MarkRiven(release_results, filtered_releases, riven_results.success)
  /\ log' = Append(log, Ev("add_media returned", <<>>, riven_results.success))
  /\ pc' = "summary"
  /\ UNCHANGED <<mainVars, raised, sourceVars, overseerr_successful, overseerr_failed, idx,
                 riven_results, movies, tmdb_ids, items_to_remove, riven_items>>

\* lines 98-100: the summary log
Summary ==
  /\ pc = "summary"
  /\ log' = Append(log, Ev("summary", <<overseerr_successful, overseerr_failed>>,
                           <<riven_success_count, riven_failed_count>>))
  /\ pc' = "notify"
  /\ UNCHANGED <<mainVars, raised, sourceVars, overseerrVars, rivenVars, riven_items>>

\* lines 103-104: the notifier is called
Notify ==
  /\ pc = "notify"
  /\ ShouldNotify(NotifierEnabled(config), release_results)
  /\ \E outcome \in NotifyOutcomes :
       /\ log' = Append(log, Ev("send_release_notifications",
                                <<filtered_releases, release_results>>, outcome))
       /\ IF outcome = "ok"
          THEN pc' = "rc_return" /\ raised' = raised
          ELSE pc' = "rc_raised" /\ raised' = "send_release_notifications"
  /\ UNCHANGED <<mainVars, sourceVars, overseerrVars, rivenVars, riven_items>>

\* line 103 false: no notification
NotifySkip ==
  /\ pc = "notify"
  /\ ~ShouldNotify(NotifierEnabled(config), release_results)
  /\ log' = Append(log, Ev("no notification", <<>>, "ok"))
  /\ pc' = "rc_return"
  /\ UNCHANGED <<mainVars, raised, sourceVars, overseerrVars, rivenVars, riven_items>>

Next ==
  \/ LoadConfig
  \/ Startup
  \/ SchedCompute
  \/ Delay
  \/ GetReleases
  \/ Filter
  \/ OverseerrRequest
  \/ RivenStep
  \/ RivenLookup
  \/ RivenRemove
  \/ RivenAdd
  \/ RivenFinish
  \/ Summary
  \/ Notify
  \/ NotifySkip
  \/ RunCheckReturn
  \/ CatchInLoop
  \/ Fatal

Spec == Init /\ [][Next]_vars

(***************************************************************************)
(* The scheduler's computation on its own, over every instant of a common  *)
(* year and a leap year.                                                   *)
(***************************************************************************)
SchedYears == {2023, 2024}
SchedSeconds == {0, 19 * 3600 - 1, 19 * 3600, 19 * 3600 + 1, SecondsPerDay - 1}
SchedRunTimes == {<<"0","0",":","0","0">>, RunTime1900, <<"2","3",":","5","9">>}

SchedInstants ==
  {[y |-> yy, mo |-> mm, d |-> dd, s |-> ss] :
     yy \in SchedYears, mm \in 1..12, dd \in 1..31, ss \in SchedSeconds}

SchedConfig(rt) ==
  [ overseerr |-> [api_url |-> HttpUrl, api_key |-> KeyText],
    riven |-> [api_url |-> EmptyText, api_key |-> EmptyText],
    tmdb |-> [api_key |-> KeyText],
    filters |-> [min_tmdb_rating |-> 0],
    discord |-> [webhook_url |-> EmptyText],
    run_time |-> rt,
    request_delay_minutes |-> 0 ]

InitSched ==
  /\ pc = "sched_input"
  /\ settings_file = NoFile
  /\ default_settings = DEFAULT_SETTINGS
  /\ environ = NoEnviron
  /\ config \in {SchedConfig(rt) : rt \in SchedRunTimes}
  /\ now \in {t \in SchedInstants : t.d <= DaysIn(t.y, t.mo)}
  /\ exit_code = NotExited
  /\ raised = "none"
  /\ overseerr_requester = NoRequester
  /\ riven_requester = NoRequester
  /\ next_run = NoTime
  /\ sleep_seconds = 0
  /\ cycles = 0
  /\ releases = <<>>
  /\ filtered_releases = <<>>
  /\ release_results = EmptyTable
  /\ overseerr_successful = 0
  /\ overseerr_failed = 0
  /\ idx = 1
  /\ riven_results = AggregateNone
  /\ movies_today = <<>>
  /\ riven_success_count = 0
  /\ riven_failed_count = 0
  /\ movies = <<>>
  /\ tmdb_ids = <<>>
  /\ items_to_remove = <<>>
  /\ riven_items = [t \in BackendIds |-> "absent"]
  /\ log = <<>>

\* lines 179-187 applied to the instant and run_time given
SchedApply ==
  /\ pc = "sched_input"
  /\ LET r == NextRun(now, config.run_time)
     IN IF r.ok
        THEN /\ next_run' = r.dt
             /\ sleep_seconds' = SecondsBetween(now, r.dt)
             /\ pc' = "sched_done"
             /\ raised' = raised
        ELSE /\ pc' = "sched_done"
             /\ raised' = "schedule"
             /\ UNCHANGED <<next_run, sleep_seconds>>
  /\ UNCHANGED <<movies_today, settings_file, environ, default_settings, config, exit_code, overseerr_requester, riven_requester, now, cycles,
                 sourceVars, overseerrVars, rivenVars, riven_items, log>>

SpecSched == InitSched /\ [][SchedApply]_vars

(***************************************************************************)
(* load_config on its own, over settings files (absent, partial, complete) *)
(* and environments.                                                       *)
(***************************************************************************)
FileRatings == {-1, 5, 11, NaN}

FileOverseerr ==
  { [api_url |-> HttpUrl, api_key |-> KeyText],
    [api_url |-> FtpUrl, api_key |-> KeyText],
    [api_url |-> FtpUrl] }

ConfigFiles ==
  {NoFile}
  \cup {SettingsFile([filters |-> [min_tmdb_rating |-> r]]) : r \in FileRatings}
  \cup {SettingsFile([overseerr |-> o, tmdb |-> [api_key |-> KeyText],
                      filters |-> [min_tmdb_rating |-> r], request_delay_minutes |-> 1]) :
          o \in FileOverseerr, r \in FileRatings}

Environs ==
  [ OVERSEERR_API_KEY : {None, KeyText},
    OVERSEERR_API_URL : {None, <<" ">>, HttpUrl, FtpUrl},
    RIVEN_API_KEY : {None, KeyText},
    RIVEN_API_URL : {None, FtpUrl},
    TMDB_API_KEY : {None, EmptyText, KeyText},
    DISCORD_WEBHOOK_URL : {None, HookUrl},
    FILTERS_MIN_TMDB_RATING :
      {None, <<" ">>, <<"5">>, <<"1","1">>, <<"-","1">>, <<"n","a","n">>, <<"x">>},
    RUN_TIME : {None, RunTime1900},
    REQUEST_DELAY_MINUTES : {None, <<"2">>, <<"x">>} ]

InitConfig ==
  /\ pc = "load"
  /\ settings_file \in ConfigFiles
  /\ environ \in Environs
  /\ default_settings = DEFAULT_SETTINGS
  /\ config = FileConfig(settings_file, default_settings)
  /\ exit_code = NotExited
  /\ raised = "none"
  /\ overseerr_requester = NoRequester
  /\ riven_requester = NoRequester
  /\ now = NoTime
  /\ next_run = NoTime
  /\ sleep_seconds = 0
  /\ cycles = 0
  /\ releases = <<>>
  /\ filtered_releases = <<>>
  /\ release_results = EmptyTable
  /\ overseerr_successful = 0
  /\ overseerr_failed = 0
  /\ idx = 1
  /\ riven_results = AggregateNone
  /\ movies_today = <<>>
  /\ riven_success_count = 0
  /\ riven_failed_count = 0
  /\ movies = <<>>
  /\ tmdb_ids = <<>>
  /\ items_to_remove = <<>>
  /\ riven_items = [t \in BackendIds |-> "absent"]
  /\ log = <<>>

SpecConfig == InitConfig /\ [][LoadConfig]_vars

(***************************************************************************)
(* The Riven step on its own: add_media on a sink that has a key, for any  *)
(* non-empty sequence of releases and any backend.                         *)
(***************************************************************************)
RivenSections ==
  { [api_url |-> HttpsUrl, api_key |-> KeyText],
    [api_url |-> EmptyText, api_key |-> KeyText] }

ItemStates == {"Unknown", "absent", "Completed"}

AddMediaInputs == SeqsUpTo({RelA, RelB, RelM, RelD}, MaxReleases) \ {<<>>}

InitRiven ==
  /\ pc = "riven"
  /\ settings_file = NoFile
  /\ default_settings = DEFAULT_SETTINGS
  /\ environ = NoEnviron
  /\ \E section \in RivenSections :
       /\ config = [DEFAULT_SETTINGS EXCEPT !.riven = section, !.tmdb.api_key = KeyText]
       /\ riven_requester = Requester(section)
  /\ filtered_releases \in AddMediaInputs
  /\ releases = filtered_releases
  /\ riven_items \in [BackendIds -> ItemStates]
  /\ exit_code = NotExited
  /\ raised = "none"
  /\ overseerr_requester = NoRequester
  /\ now = NoTime
  /\ next_run = NoTime
  /\ sleep_seconds = 0
  /\ cycles = 0
  /\ release_results = EmptyTable
  /\ overseerr_successful = 0
  /\ overseerr_failed = 0
  /\ idx = 1
  /\ riven_results = AggregateNone
  /\ movies_today = <<>>
  /\ riven_success_count = 0
  /\ riven_failed_count = 0
  /\ movies = <<>>
  /\ tmdb_ids = <<>>
  /\ items_to_remove = <<>>
  /\ log = <<>>

NextRiven ==
  \/ RivenStep
  \/ RivenLookup
  \/ RivenRemove
  \/ RivenAdd
  \/ RivenFinish

SpecRiven == InitRiven /\ [][NextRiven]_vars

(***************************************************************************)
(* The scraped release source: get_todays_digital_releases.                *)
(***************************************************************************)
ScrapedTitles == {"D", "E", "F"}

RelF == [title |-> "F", tmdb_id |-> NoId, id |-> 5, type |-> NoType, vote_average |-> 4,
         media_type |-> "movie"]

\* lines 160-172: the record _lookup_on_tmdb builds for a title it found
TmdbMovie(title) == IF title = "D" THEN RelD ELSE IF title = "E" THEN RelE ELSE RelF

NoMovie == [title |-> "None", tmdb_id |-> NoId, id |-> NoId, type |-> NoType,
            vote_average |-> 0,
         media_type |-> "movie"]

\* _parse_releases returns each title once (lines 105-113)
TitleLists ==
  {q \in SeqsUpTo(ScrapedTitles, MaxReleases) :
     \A i \in 1..Len(q) : \A j \in 1..Len(q) : q[i] = q[j] => i = j}

FetchOutcomes == {"ok", "RequestException"}
ParseFailures == {"Exception"}
LookupOutcomes == {"found", "not_found", "RequestException", "KeyError"}

\* the mutated lookup: a transport error is not caught in _lookup_on_tmdb
LookupOnTmdbNoHandler(title, outcome) ==
  IF outcome = "found" THEN [raised |-> FALSE, value |-> TmdbMovie(title)]
  ELSE IF outcome = "not_found" THEN [raised |-> FALSE, value |-> NoMovie]
  ELSE [raised |-> TRUE, value |-> NoMovie]

\* _lookup_on_tmdb, lines 115-176: the record, None, or an exception it does not catch
LookupOnTmdb(title, outcome) ==
  IF outcome = "found" THEN [raised |-> FALSE, value |-> TmdbMovie(title)]
  ELSE IF outcome \in {"not_found", "RequestException"}
  THEN [raised |-> FALSE, value |-> NoMovie]
  ELSE [raised |-> TRUE, value |-> NoMovie]

\* the mutated handlers: only transport errors are caught
HandledRequestOnly(exception) == exception = "RequestException"

\* lines 62-67: both handlers of get_todays_digital_releases return []
Handled(exception) == exception \in {"RequestException", "Exception", "KeyError"}

InitSource ==
  /\ pc = "src_fetch"
  /\ settings_file = NoFile
  /\ default_settings = DEFAULT_SETTINGS
  /\ environ = NoEnviron
  /\ config = [DEFAULT_SETTINGS EXCEPT !.tmdb.api_key = KeyText,
                                        !.overseerr = [api_url |-> HttpUrl, api_key |-> KeyText]]
  /\ exit_code = NotExited
  /\ raised = "none"
  /\ overseerr_requester = NoRequester
  /\ riven_requester = NoRequester
  /\ now = NoTime
  /\ next_run = NoTime
  /\ sleep_seconds = 0
  /\ cycles = 0
  /\ releases = <<>>
  /\ filtered_releases = <<>>
  /\ release_results = EmptyTable
  /\ overseerr_successful = 0
  /\ overseerr_failed = 0
  /\ idx = 1
  /\ riven_results = AggregateNone
  /\ movies_today = <<>>
  /\ riven_success_count = 0
  /\ riven_failed_count = 0
  /\ movies = <<>>
  /\ tmdb_ids = <<>>
  /\ items_to_remove = <<>>
  /\ riven_items = [t \in BackendIds |-> "absent"]
  /\ log = <<>>

sourceFrame == <<settings_file, environ, default_settings, config, exit_code, overseerr_requester,
                 riven_requester, now, next_run, sleep_seconds, cycles, filtered_releases,
                 release_results, overseerr_successful, overseerr_failed,
                 rivenVars, riven_items>>

\* lines 35-36: the page is fetched; an HTTP error status raises
SourceFetch ==
  /\ pc = "src_fetch"
  /\ \E outcome \in FetchOutcomes :
       /\ log' = Append(log, Ev("requests.get", "page", outcome))
       /\ IF outcome = "ok" THEN pc' = "src_parse" /\ raised' = raised
          ELSE IF Handled(outcome) THEN pc' = "src_done" /\ raised' = raised
          ELSE pc' = "src_raised" /\ raised' = "get_today_releases"
  /\ releases' = <<>>
  /\ UNCHANGED <<sourceFrame, movies_today, idx>>

\* lines 39-51: the page is parsed for today's titles
SourceParse ==
  /\ pc = "src_parse"
  /\ \/ \E failure \in ParseFailures :
          /\ log' = Append(log, Ev("_parse_releases", "page", failure))
          /\ IF Handled(failure) THEN pc' = "src_done" /\ raised' = raised
             ELSE pc' = "src_raised" /\ raised' = "get_today_releases"
          /\ UNCHANGED <<movies_today, idx>>
     \/ \E titles \in TitleLists :
          /\ log' = Append(log, Ev("_parse_releases", "page", "ok"))
          /\ movies_today' = titles
          /\ idx' = 1
          /\ pc' = IF titles = <<>> THEN "src_done" ELSE "src_lookup"
          /\ raised' = raised
  /\ releases' = <<>>
  /\ UNCHANGED sourceFrame

\* lines 52-60: one title is looked up; the list is returned after the last one
SourceLookup ==
  /\ pc = "src_lookup"
  /\ \E outcome \in LookupOutcomes :
       LET tmdb_movie == LookupOnTmdb(movies_today[idx], outcome)
       IN /\ log' = Append(log, Ev("_lookup_on_tmdb", idx, outcome))
          /\ IF tmdb_movie.raised
             THEN /\ releases' = <<>>
                  /\ idx' = idx
                  /\ IF Handled(outcome) THEN pc' = "src_done" /\ raised' = raised
                     ELSE pc' = "src_raised" /\ raised' = "get_today_releases"
             ELSE /\ releases' = IF tmdb_movie.value # NoMovie
                                  THEN Append(releases, tmdb_movie.value) ELSE releases
                  /\ idx' = idx + 1
                  /\ pc' = IF idx = Len(movies_today) THEN "src_done" ELSE "src_lookup"
                  /\ raised' = raised
  /\ UNCHANGED <<sourceFrame, movies_today>>

NextSource ==
  \/ SourceFetch
  \/ SourceParse
  \/ SourceLookup

SpecSource == InitSource /\ [][NextSource]_vars

(***************************************************************************)
(* Reading the log of the current cycle.                                   *)
(***************************************************************************)
LogIdx(op) == {i \in 1..Len(log) : log[i].op = op}
Count(op) == Cardinality(LogIdx(op))
Called(op) == LogIdx(op) # {}

\* the request_media calls of the cycle, in call order
IsRequestEvent(e) == e.op = "request_media"
Requests == SelectSeq(log, IsRequestEvent)

InRivenStep == pc \in {"riven", "riven_lookup", "riven_remove", "riven_add", "riven_ret"}
AfterRivenStep == pc \in {"summary", "notify", "rc_return", "rc_raised"}
AfterOverseerrStep == InRivenStep \/ AfterRivenStep
RunCheckEnded == pc \in {"rc_return", "rc_raised"}
NotifierStepDone == Called("send_release_notifications") \/ Called("no notification")

(***************************************************************************)
(* Claims.                                                                 *)
(***************************************************************************)
\* C7 as stated: in scheduled mode, whatever happened in a cycle, main is still
\* running afterwards (it goes on to the next scheduled time and never ends).
C7_ScheduledLoopNeverEnds ==
  (Scheduled /\ cycles >= 1) => pc \notin {"fatal", "exit"}

\* C8 as stated: for every instant and run_time the computation succeeds, yields the
\* earliest instant strictly after now with that time of day, and the wait is in (0, 24h].
C8_NextRunIsCalendarNext ==
  pc = "sched_done" =>
    /\ raised = "none"
    /\ next_run = CalendarNextRun(now, config.run_time)
    /\ sleep_seconds > 0
    /\ sleep_seconds <= SecondsPerDay

\* C9 as stated: main returns 1 only for an error of configuration loading or start-up.
C9_ExitOneOnlyForConfigErrors ==
  (pc = "exit" /\ exit_code = 1) => raised \in {"load_config", "startup"}

\* the configuration-class errors C10 lists
ConfigError(cfg) ==
  \/ cfg.overseerr.api_key = EmptyText /\ cfg.riven.api_key = EmptyText
  \/ cfg.tmdb.api_key = EmptyText
  \/ cfg.overseerr.api_key # EmptyText /\ BadScheme(cfg.overseerr.api_url)
  \/ cfg.riven.api_key # EmptyText /\ BadScheme(cfg.riven.api_url)
  \/ cfg.filters.min_tmdb_rating < 0
  \/ cfg.filters.min_tmdb_rating > 10

\* C10: with a configuration-class error main only loads, fails and returns 1; no
\* cycle starts and no collaborator (source, sinks, notifier) is ever called.
C10_ConfigErrorStopsBeforeAnyCycle ==
  ConfigError(config) =>
    /\ pc \in {"load", "startup", "fatal", "exit"}
    /\ pc = "exit" => exit_code = 1
    /\ cycles = 0
    /\ log = <<>>

\* reached: a Riven sink with an ftp:// URL made main return 1
C10_Witness ==
  /\ pc = "exit"
  /\ exit_code = 1
  /\ config.riven.api_key # EmptyText
  /\ BadScheme(config.riven.api_url)
  /\ config.tmdb.api_key # EmptyText
  /\ config.filters.min_tmdb_rating = 5

LoadReturned == pc = "startup"
LoadRaised == pc = "fatal" /\ raised = "load_config"

\* the type of the setting an environment variable stands for
TypeOf(name) ==
  IF name \in DOMAIN EnvMap THEN EnvMap[name].type ELSE TopLevelMap[name].type

\* the configuration C11 describes: the file's (or default) settings, with every
\* variable that is set put in place of the file's value
WithEnvironment(cfg, env) ==
  [k \in DOMAIN cfg |->
     IF k \in Sections
     THEN [f \in DOMAIN cfg[k] |->
             IF \E n \in DOMAIN EnvMap :
                  EnvMap[n].section = k /\ EnvMap[n].key = f /\ env[n] # None
             THEN LET n == CHOOSE n \in DOMAIN EnvMap :
                             EnvMap[n].section = k /\ EnvMap[n].key = f
                  IN Convert(env[n], EnvMap[n].type).v
             ELSE cfg[k][f]]
     ELSE IF \E n \in DOMAIN TopLevelMap : TopLevelMap[n].key = k /\ env[n] # None
          THEN LET n == CHOOSE n \in DOMAIN TopLevelMap : TopLevelMap[n].key = k
               IN Convert(env[n], TopLevelMap[n].type).v
          ELSE cfg[k]]

AllConvert(env) == \A n \in DOMAIN env : env[n] # None => Convert(env[n], TypeOf(n)).ok

\* 0 <= r <= 10
RatingInRange(r) == r # NaN /\ 0 <= r /\ r <= 10

\* the validation the spec names: rating range, URL scheme of a sink that has a key
ValidSettings(cfg) ==
  /\ RatingInRange(cfg.filters.min_tmdb_rating)
  /\ cfg.overseerr.api_key # EmptyText => ~BadScheme(cfg.overseerr.api_url)
  /\ cfg.riven.api_key # EmptyText => ~BadScheme(cfg.riven.api_url)

\* C11 as stated: load_config returns exactly when every variable that is set converts
\* and the settings with the environment's values in place are valid, and it then
\* returns those settings; otherwise it raises.
C11_EnvironmentTakesPrecedence ==
  pc # "load" =>
    IF AllConvert(environ)
       /\ ValidSettings(WithEnvironment(FileConfig(settings_file, DEFAULT_SETTINGS), environ))
    THEN LoadReturned /\ config = WithEnvironment(FileConfig(settings_file, DEFAULT_SETTINGS), environ)
    ELSE LoadRaised

\* C12 as stated: every configuration load_config returns has a rating in [0, 10];
\* with a rating outside it load_config raises.
C12_ReturnedRatingInRange ==
  LoadReturned => RatingInRange(config.filters.min_tmdb_rating)

\* positions of filtered_releases whose request_media call gave one of `outcomes`
SubmittedIn(rq, outcomes) == {rq[j].arg : j \in {n \in 1..Len(rq) : rq[n].res \in outcomes}}
Submitted(outcomes) == SubmittedIn(Requests, outcomes)

\* C1: when request_media raises for some release, the run still submits every
\* filtered release once and in order, counts each raise (and each false) as one
\* failure and each success as one success flagged in the outcome table, is not left
\* by that exception, and goes on to the Riven call and to the notifier step.
C1_OverseerrFailureIsolated ==
  AfterOverseerrStep =>
    LET rq == Requests
    IN (\E j \in 1..Len(rq) : rq[j].res = "raise") =>
         /\ raised # "request_media"
         /\ Len(rq) = Len(filtered_releases)
         /\ \A j \in 1..Len(rq) : rq[j].arg = j
         /\ overseerr_failed = Cardinality(SubmittedIn(rq, {"raise", "false"}))
         /\ overseerr_successful = Cardinality(SubmittedIn(rq, {"true"}))
         /\ \A i \in SubmittedIn(rq, {"true"}) :
              /\ ResultKey(filtered_releases[i]) \in DOMAIN release_results
              /\ release_results[ResultKey(filtered_releases[i])].overseerr
         /\ RunCheckEnded =>
              /\ riven_requester.present => Called("add_media")
              /\ NotifierStepDone

\* reached: item 1 of 2 raised, item 2 succeeded, Riven and the notifier were called
C1_Witness ==
  /\ pc = "rc_return"
  /\ Len(filtered_releases) = 2
  /\ Submitted({"raise"}) = {1}
  /\ Submitted({"true"}) = {2}
  /\ overseerr_failed = 1
  /\ overseerr_successful = 1
  /\ Called("add_media")
  /\ Called("send_release_notifications")

PostFailed == \E k \in LogIdx("POST /items/add") : log[k].res # "200"

\* C2: no failure of the Riven call path leaves add_media as an exception: add_media
\* always returns an aggregate, a failed add call gives success 0 and a failed count
\* above 0, and the run goes on to its summary and to the notifier step.
C2_RivenFailureContained ==
  /\ raised # "add_media"
  /\ (AfterRivenStep /\ Called("add_media")) =>
       /\ Called("add_media returned")
       /\ PostFailed => (riven_success_count = 0 /\ riven_failed_count > 0)
  /\ RunCheckEnded => (Called("summary") /\ NotifierStepDone)

\* reached: the remove call and the add call both raised, the cycle ended normally
C2_Witness ==
  /\ pc = "rc_return"
  /\ \E k \in LogIdx("DELETE /items/remove") : log[k].res = "exception"
  /\ \E k \in LogIdx("POST /items/add") : log[k].res = "exception"
  /\ riven_failed_count > 0
  /\ Called("summary")

\* C3 as stated: the record looked up for a filtered release has overseerr = TRUE
\* only if a request_media call made for that very release returned success.
C3_FlagOnlyAfterOwnSuccess ==
  AfterOverseerrStep =>
    \A i \in 1..Len(filtered_releases) :
      LET key == ResultKey(filtered_releases[i])
      IN (key \in DOMAIN release_results /\ release_results[key].overseerr) =>
           \E j \in Submitted({"true"}) : filtered_releases[j] = filtered_releases[i]

\* C4: after the Riven step, a success count above 0 means every filtered release
\* has a record with riven = TRUE; a success count of 0 means no record has it.
C4_RivenFlagsFollowAggregate ==
  (AfterRivenStep /\ Called("add_media")) =>
    /\ riven_results.success > 0 =>
         \A i \in 1..Len(filtered_releases) :
           /\ ResultKey(filtered_releases[i]) \in DOMAIN release_results
           /\ release_results[ResultKey(filtered_releases[i])].riven
    /\ riven_results.success = 0 =>
         \A k \in DOMAIN release_results : ~release_results[k].riven

\* reached: Riven alone, two releases with different ids, both marked
C4_Witness ==
  /\ pc = "summary"
  /\ ~overseerr_requester.present
  /\ filtered_releases = <<RelA, RelB>>
  /\ riven_results.success = 2
  /\ release_results["1"].riven
  /\ release_results["2"].riven

\* C5: add_media is called once, with the whole filtered sequence, when a Riven sink
\* is configured and the filtered set is non-empty, and not at all otherwise;
\* request_media is never called for an empty filtered set.
C5_AddMediaExactlyOnce ==
  /\ Count("add_media") <= 1
  /\ \A k \in LogIdx("add_media") :
       log[k].arg = filtered_releases /\ riven_requester.present /\ filtered_releases # <<>>
  /\ (AfterRivenStep /\ riven_requester.present /\ filtered_releases # <<>>) =>
       Count("add_media") = 1
  /\ (AfterOverseerrStep /\ filtered_releases = <<>>) => ~Called("request_media")

\* reached: one add_media call carrying both filtered releases
C5_Witness ==
  /\ pc = "summary"
  /\ Len(filtered_releases) = 2
  /\ Count("add_media") = 1
  /\ log[CHOOSE k \in LogIdx("add_media") : TRUE].arg = filtered_releases

\* C6: send_release_notifications is called (once, with the filtered releases and
\* the outcome table) exactly when the notifier is enabled and the table is not empty.
C6_NotifyIffEnabledAndOutcomes ==
  /\ Count("send_release_notifications") <= 1
  /\ \A k \in LogIdx("send_release_notifications") :
       log[k].arg = <<filtered_releases, release_results>>
  /\ RunCheckEnded =>
       (Called("send_release_notifications")
          <=> (NotifierEnabled(config) /\ DOMAIN release_results # {}))

\* reached: notifier enabled, releases filtered in, but no sink made a record
C6_Witness ==
  /\ pc = "rc_return"
  /\ NotifierEnabled(config)
  /\ filtered_releases # <<>>
  /\ DOMAIN release_results = {}
  /\ Called("add_media")
  /\ ~Called("send_release_notifications")

\* the calls the Riven sink made to its backend, in call order
IsRivenCall(e) == e.op \in {"GET /items", "DELETE /items/remove", "POST /items/add"}
RivenCalls == SelectSeq(log, IsRivenCall)

SeqRange(q) == {q[i] : i \in 1..Len(q)}

\* internal ids of the backend's Unknown items whose tmdb id is among `ids`
UnknownTargets(items, ids) ==
  {ToString(InternalId(t)) :
     t \in {u \in BackendIds : items[u] = "Unknown" /\ ToString(u) \in SeqRange(ids)}}

\* C13: a batch add queries the Unknown items first, then makes at most one remove
\* call, whose ids are exactly the internal ids of the Unknown items the query
\* returned for target ids (none: no remove call), and only then the add call.
C13_LookupRemoveThenAdd ==
  LET calls == RivenCalls
      ops == [i \in 1..Len(calls) |-> calls[i].op]
  IN /\ ops \in { <<>>,
                   <<"GET /items">>,
                   <<"GET /items", "DELETE /items/remove">>,
                   <<"GET /items", "POST /items/add">>,
                   <<"GET /items", "DELETE /items/remove", "POST /items/add">> }
     /\ pc = "riven_remove" =>
          /\ calls[1].res = "200"
          /\ SeqRange(items_to_remove) = UnknownTargets(riven_items, tmdb_ids)
          /\ items_to_remove # <<>>
     /\ (pc = "riven_add" /\ calls[1].res = "200" /\ Len(calls) = 1) =>
          UnknownTargets(riven_items, tmdb_ids) = {}
     /\ \A i \in 1..Len(calls) :
          calls[i].op = "DELETE /items/remove" => calls[i].arg = items_to_remove
     /\ (Len(calls) > 0 /\ pc \in {"riven_ret", "summary"}) =>
          calls[Len(calls)].op = "POST /items/add"

\* reached: item 1 was found in Unknown state, removed by its internal id, and both
\* targets were then added
C13_Witness ==
  /\ pc = "summary"
  /\ tmdb_ids = <<"1", "2">>
  /\ [i \in 1..Len(RivenCalls) |-> RivenCalls[i].arg] = <<"Unknown", <<"101">>, <<"1", "2">>>>
  /\ RivenCalls[2].res = "200"

LookupFailed ==
  \E i \in 1..Len(RivenCalls) : RivenCalls[i].op = "GET /items" /\ RivenCalls[i].res # "200"
RemoveFailed ==
  \E i \in 1..Len(RivenCalls) :
    RivenCalls[i].op = "DELETE /items/remove" /\ RivenCalls[i].res # "200"

\* C14: when the Unknown-items lookup or the remove call fails, the add request is
\* still issued with all target ids, and the counts add_media returns are those of
\* the add call's answer alone.
C14_CleanupFailureDoesNotBlockAdd ==
  (pc \in {"riven_ret", "summary"} /\ (LookupFailed \/ RemoveFailed)) =>
    LET post == RivenCalls[Len(RivenCalls)]
        n == Len(TmdbIds(Movies(filtered_releases)))
    IN /\ post.op = "POST /items/add"
       /\ post.arg = TmdbIds(Movies(filtered_releases))
       /\ post.res = "200" => (riven_results.success = n /\ riven_results.failed = 0)
       /\ post.res # "200" => (riven_results.success = 0 /\ riven_results.failed > 0)

\* reached: the remove call was refused, the add call was accepted for both targets
C14_Witness ==
  /\ pc = "summary"
  /\ RemoveFailed
  /\ RivenCalls[Len(RivenCalls)].res = "200"
  /\ riven_success_count = 2

\* C15 as stated: whatever the class of a failed add call (404, 422, another status,
\* a network exception), the aggregate has success 0 and failed = the number of
\* TMDB ids in the batch.
C15_FailedIsCountOfIds ==
  (pc \in {"riven_ret", "summary"} /\ Len(RivenCalls) > 0) =>
    LET post == RivenCalls[Len(RivenCalls)]
    IN (post.op = "POST /items/add" /\ post.res # "200") =>
         /\ riven_results.success = 0
         /\ riven_results.failed = Len(post.arg)

\* the outcomes of the lookups made so far, by position in movies_today
IsLookup(e) == e.op = "_lookup_on_tmdb"
Lookups == SelectSeq(log, IsLookup)

FetchFailed == \E k \in LogIdx("requests.get") : log[k].res # "ok"
ParseFailed == \E k \in LogIdx("_parse_releases") : log[k].res # "ok"
LookupErrors(kinds) == {Lookups[i].arg : i \in {n \in 1..Len(Lookups) : Lookups[n].res \in kinds}}

SourceEnded == pc \in {"src_done", "src_raised"}

OverseerrRan == AfterOverseerrStep /\ overseerr_requester.present /\ filtered_releases # <<>>

Titles(rs) == {rs[i].title : i \in 1..Len(rs)}

\* C17 as stated: every release carries its TMDB identifier as tmdb_id and the outcome
\* table is keyed by it: after the Overseerr step there is one record per filtered
\* release, and releases for different titles never share a record.
C17_OneRecordPerRelease ==
  /\ \A i \in 1..Len(releases) : releases[i].tmdb_id # NoId
  /\ OverseerrRan =>
       /\ Cardinality(DOMAIN release_results) = Cardinality(Titles(filtered_releases))
       /\ \A i \in 1..Len(filtered_releases) : \A j \in 1..Len(filtered_releases) :
            filtered_releases[i].title # filtered_releases[j].title =>
              ResultKey(filtered_releases[i]) # ResultKey(filtered_releases[j])

\* the TMDB identifier a release carries, under either key
TmdbIdentifier(r) == IF r.tmdb_id # NoId THEN r.tmdb_id ELSE r.id

\* C18 as stated: add_media on an enabled sink, given movie releases as the source
\* produces them, issues the add request with the id of every release, in input order.
C18_EveryMovieInTheBatch ==
  (pc \in {"riven_ret", "summary"} /\ IsEnabled(riven_requester)
     /\ \A i \in 1..Len(filtered_releases) :
          /\ filtered_releases[i].media_type = "movie"
          /\ TmdbIdentifier(filtered_releases[i]) # NoId) =>
    /\ Len(RivenCalls) > 0
    /\ RivenCalls[Len(RivenCalls)].op = "POST /items/add"
    /\ RivenCalls[Len(RivenCalls)].arg =
         [i \in 1..Len(filtered_releases) |-> ToString(TmdbIdentifier(filtered_releases[i]))]

\* C19 as stated: with a request delay configured, in every cycle the release-source
\* call precedes the wait and the wait precedes the first request to a sink.
C19_DelayBetweenDetectionAndRequests ==
  config.request_delay_minutes > 0 =>
    /\ \A k \in LogIdx("sleep") : \E g \in LogIdx("get_today_releases") : g < k
    /\ \A r \in LogIdx("request_media") \cup LogIdx("add_media") :
         \E k \in LogIdx("sleep") : k < r

\* a is b with some elements left out
RECURSIVE IsSubsequence(_, _)
IsSubsequence(a, b) ==
  IF a = <<>> THEN TRUE
  ELSE IF b = <<>> THEN FALSE
  ELSE IF Head(a) = Head(b) THEN IsSubsequence(Tail(a), Tail(b))
  ELSE IsSubsequence(a, Tail(b))

\* C20: what run_check hands to the sinks and the notifier is the filter's output, an
\* order-preserving subsequence of the source's output; a release the filter rejected
\* is never submitted to a sink and no outcome record is made for it.
C20_OnlyFilteredReleasesAreHandled ==
  /\ IsSubsequence(filtered_releases, releases)
  /\ \A i \in 1..Len(releases) :
       FloatLt(releases[i].vote_average, config.filters.min_tmdb_rating) =>
         releases[i] \notin SeqRange(filtered_releases)
  /\ \A k \in LogIdx("request_media") : log[k].arg \in 1..Len(filtered_releases)
  /\ \A k \in LogIdx("add_media") : log[k].arg = filtered_releases
  /\ \A k \in LogIdx("send_release_notifications") : log[k].arg[1] = filtered_releases
  /\ \A key \in DOMAIN release_results :
       \E i \in 1..Len(filtered_releases) : ResultKey(filtered_releases[i]) = key

\* reached: of two releases the filter kept the first; both sinks and the notifier
\* were given that one, and the table has its record only
C20_Witness ==
  /\ pc = "rc_return"
  /\ releases = <<RelA, RelB>>
  /\ filtered_releases = <<RelA>>
  /\ Count("request_media") = 1
  /\ Called("add_media")
  /\ Called("send_release_notifications")
  /\ DOMAIN release_results = {"1"}

\* the step of run_check an event of the log belongs to
StepOf(op) ==
  CASE op = "get_today_releases" -> 1
    [] op = "apply_filters" -> 2
    [] op = "request_media" -> 3
    [] op \in {"add_media", "GET /items", "DELETE /items/remove", "POST /items/add",
               "add_media returned"} -> 4
    [] op = "summary" -> 5
    [] op \in {"send_release_notifications", "no notification"} -> 6
    [] OTHER -> 0

\* C21: within one run_check the steps come in the order source, filter, Overseerr
\* submissions, the one Riven batch call, notifier; the submissions are one per
\* filtered release, in filtered order; the Riven call starts only after the last
\* submission returned and the notifier only after the Riven call returned.
C21_StepsInOrder ==
  /\ \A i \in 1..(Len(log) - 1) : StepOf(log[i].op) <= StepOf(log[i + 1].op)
  /\ \A op \in {"get_today_releases", "apply_filters", "add_media", "add_media returned",
                 "send_release_notifications"} : Count(op) <= 1
  /\ LET rq == Requests
     IN /\ \A k \in 1..Len(rq) : rq[k].arg = k
        /\ Len(rq) <= Len(filtered_releases)
        /\ (OverseerrRan /\ raised = "none") => Len(rq) = Len(filtered_releases)
  /\ (Called("add_media") /\ NotifierStepDone) => Called("add_media returned")

C21_Witness ==
  /\ Len(Requests) = 2
  /\ Called("POST /items/add")
  /\ Called("add_media returned")
  /\ Called("send_release_notifications")

\* add_media has returned to run_check
AddMediaReturned == pc = "riven_ret"

\* C22 as stated: for every call of add_media with n releases the returned counts
\* satisfy success + failed = n.
C22_EveryReleaseCounted ==
  AddMediaReturned =>
    riven_results.success + riven_results.failed = Len(filtered_releases)

\* the add call of the batch was answered 200
AddAccepted ==
  \E k \in LogIdx("POST /items/add") : log[k].res = "200" /\ log[k].arg = tmdb_ids

\* C23: add_media never returns a mixed result: success > 0 implies failed = 0 and
\* success = the number of TMDB ids sent, failed > 0 implies success = 0; in run_check
\* a riven flag is set only when the whole add request was accepted.
C23_NoMixedResult ==
  /\ (AddMediaReturned \/ AfterRivenStep) =>
        /\ riven_results.success > 0 =>
              /\ riven_results.failed = 0
              /\ riven_results.success = Len(tmdb_ids)
              /\ AddAccepted
        /\ riven_results.failed > 0 => riven_results.success = 0
  /\ \A key \in DOMAIN release_results : release_results[key].riven => AddAccepted

C23_Witness ==
  /\ pc = "summary"
  /\ filtered_releases = <<RelA, RelB>>
  /\ riven_results.success = 2
  /\ riven_results.failed = 0
  /\ release_results["1"].riven
  /\ release_results["2"].riven

\* the backend items the lookup found in Unknown state for the batch
FoundUnknown == {t \in BackendIds : ToString(InternalId(t)) \in SeqRange(items_to_remove)}

\* C24 as stated: when the batch add returns a failure result, no item that was found
\* in Unknown state is left removed from the backend.
C24_FailedAddLeavesBackendIntact ==
  (AddMediaReturned /\ riven_results.success = 0) =>
    \A t \in FoundUnknown : riven_items[t] # "absent"

\* the records of the first n scraped titles whose lookup succeeded, in scrape order
RECURSIVE FoundUpTo(_)
FoundUpTo(n) ==
  IF n = 0 THEN <<>>
  ELSE FoundUpTo(n - 1) \o
       (IF Lookups[n].res = "found" THEN <<TmdbMovie(movies_today[n])>> ELSE <<>>)

\* C25 as stated: a failed lookup of any kind drops only its own title: the titles
\* whose lookup succeeded are returned, in scrape order.
C25_AnyLookupFailureDropsOneTitle ==
  (SourceEnded /\ ~FetchFailed /\ ~ParseFailed) => releases = FoundUpTo(Len(Lookups))

\* C25 amended: a transport failure of one lookup drops only that title, the titles
\* whose lookup succeeded being returned in scrape order; a lookup failure of another
\* kind (an unexpected response body) makes the source return the empty sequence.
C25_TransportFailureDropsOneTitle ==
  (SourceEnded /\ ~FetchFailed /\ ~ParseFailed) =>
    releases = IF LookupErrors({"KeyError"}) # {} THEN <<>> ELSE FoundUpTo(Len(Lookups))

\* reached: the first lookup failed on the network, the second title was found and is
\* the one release returned
C25_Witness ==
  /\ pc = "src_done"
  /\ Len(movies_today) = 2
  /\ Len(Lookups) = 2
  /\ Lookups[1].res = "RequestException"
  /\ Lookups[2].res = "found"
  /\ releases = <<TmdbMovie(movies_today[2])>>

\* the records of the outcome table whose overseerr flag is set
OverseerrRecords == {k \in DOMAIN release_results : release_results[k].overseerr}

\* C26 as stated: with the Overseerr sink configured, after the Overseerr step the two
\* counters add up to the number of filtered releases and the number of records with
\* overseerr = TRUE equals overseerr_successful.
C26_CountersMatchRecords ==
  OverseerrRan =>
    /\ overseerr_successful + overseerr_failed = Len(filtered_releases)
    /\ Cardinality(OverseerrRecords) = overseerr_successful

\* C27 as stated: load_config never modifies ConfigManager.DEFAULT_SETTINGS, whatever
\* the settings file and the environment.
C27_DefaultsUnchanged ==
  default_settings = DEFAULT_SETTINGS

====
